---------------------------- MODULE Spec2Model ----------------------------
(* State-machine model of the snapshot / reward-distribution backend.      *)
(* The persistent store (tournaments, snapshots, reward_pools,             *)
(* user_rewards), the token ledger, and the request handlers that write    *)
(* them.  Amounts are in units of 10^-4 BOSON.                             *)
EXTENDS Integers, Sequences, FiniteSets, TLC

(***************************************************************************)
(* Bounds of the model                                                     *)
(***************************************************************************)
MaxRuns == 2            \* distribute requests issued
MaxStatusCalls == 2     \* processReward / updateRewardStatus requests issued
MaxSlot == 1            \* highest ledger position reached
MaxImports == 1         \* runs of the import script
MaxTransfers == 6       \* transfers given to batchTransferTokens

(***************************************************************************)
(* Input domains                                                           *)
(***************************************************************************)
Tournaments == {"t1"}
NoId == "none"
Addresses == {"a1", "a2", "a3"}
AddressOrder == <<"a1", "a2", "a3">>      \* lexical order of the addresses
SnapshotTypes == {"PRE_MATCH", "POST_MATCH"}
Statuses == {"PENDING", "PROCESSING", "COMPLETED", "FAILED"}
Null == "null"        \* no error, no value (strings)
NullId == <<>>        \* no id, no transaction reference

\* What the ledger answers to a holder query: address -> balance.
HolderViews ==
    { [a \in Addresses |-> 1],
      [a \in Addresses |-> CASE a = "a1" -> 2 [] a = "a2" -> 0
                                [] OTHER -> 1] }

\* totalRewardAmount values a caller sends (0 stands for a missing amount).
TotalRewardAmounts == {0, 25, 30}

\* rewardPoolAmount of the tournament-creation script: 50000 BOSON.
ScriptRewardPoolAmount == 500000000

\* REWARD_CONFIG.MIN_REWARD_AMOUNT: 0.001 BOSON.
MIN_REWARD_AMOUNT == 10
\* Math.pow(10, BOSON_DECIMALS) base units per BOSON, per unit of 10^-4 BOSON.
BaseUnitsPerUnit == 100000

VARIABLES
    tournaments,      \* ids of the rows of table tournaments
    snapshots,        \* rows of table snapshots
    rewardPools,      \* rows of table reward_pools
    userRewards,      \* rows of table user_rewards
    schema,           \* "migrated" | "legacy": columns of user_rewards
    adminConfigured,  \* REWARD_CONFIG has the admin key and address
    slot,             \* current ledger position
    ledger,           \* transactions submitted to the ledger, in order
    imports,          \* runs of the import script so far
    importPc,         \* position of the import script in importData
    statusCalls,      \* processReward / updateRewardStatus requests so far
    snapResponse,     \* response of the last createSnapshot request
    statusResponse,   \* response of the last reward-status request
    runs,             \* distribute requests so far
    pc,               \* position of the distribute request in its handler
    req,              \* body of the distribute request
    calc,             \* rewardDistribution.rewardCalculations
    idx,              \* loop position in transferRewardsToUsers
    transferResults,  \* transferResults of the request
    summary,          \* summary of the request
    poolId,           \* id of the RewardPool the request created
    rewardRecords,    \* ids of the UserReward rows the request created
    response,         \* HTTP response of the request
    capture,          \* the last holder capture of the ledger adapter
    xfer,             \* the transferTokens call in progress
    batch,            \* the batchTransferTokens call in progress
    tournamentRows,   \* tournament id -> status, matchId, eligiblePlayers
    tournamentResponse, \* response of the last tournament update request
    poolResponse,     \* response of the last createRewardPool request
    eventService,     \* ContractEventService and its handlers in progress
    playerPacks,      \* rows of table player_packs, and the transfers made
    openPackRequests, \* the openPack requests, each with its position
    users,            \* addresses of the rows of table users
    grants,           \* new-user grants issued, per address
    trackRequests     \* the trackUser requests, each with its position

dbVars == <<tournaments, snapshots, rewardPools, userRewards>>
adapterVars == <<capture, xfer, batch>>
serviceVars == <<eventService, playerPacks, openPackRequests, users, grants,
                 trackRequests>>
appVars == <<tournamentResponse, poolResponse, serviceVars>>
configVars == <<schema, adminConfigured, adapterVars, appVars>>
envVars == <<configVars, tournamentRows>>
runVars == <<runs, pc, req, calc, idx, transferResults, summary, poolId,
             rewardRecords, response>>
vars == <<tournaments, snapshots, rewardPools, userRewards, schema,
          adminConfigured, slot, ledger, imports, importPc, statusCalls,
          snapResponse,
          statusResponse, runs, pc, req, calc, idx, transferResults, summary,
          poolId, rewardRecords, response, capture, xfer, batch,
          tournamentRows, tournamentResponse, poolResponse, eventService,
          playerPacks, openPackRequests, users, grants, trackRequests>>
\* Everything but the ledger adapter's own calls.
backendVars == <<dbVars, tournamentRows, appVars, schema, adminConfigured, slot, ledger, imports,
                 importPc, statusCalls, snapResponse, statusResponse,
                 runVars>>

(***************************************************************************)
(* Helpers                                                                 *)
(***************************************************************************)
RECURSIVE SumRewardAmount(_)
SumRewardAmount(s) ==
    IF s = <<>> THEN 0 ELSE Head(s).rewardAmount + SumRewardAmount(Tail(s))

\* A generated primary key (cuid): the first id of the prefix not in use.
FreshId(prefix, used) ==
    <<prefix, CHOOSE n \in 1..(Cardinality(used) + 1) : <<prefix, n>> \notin used>>

NoResponse == [status |-> 0, error |-> Null]

(***************************************************************************)
(* The persistent store: constraints of the tables                         *)
(***************************************************************************)
\* snapshots_pkey
SnapshotPkViolation(table, row) == \E s \in table : s.id = row.id

SnapshotUniqueViolation_Dropped(table, row) == FALSE

\* snapshots_tournamentId_snapshotType_key
SnapshotUniqueViolation(table, row) ==
    \E s \in table : /\ s.tournamentId = row.tournamentId
                     /\ s.snapshotType = row.snapshotType

\* snapshots_tournamentId_fkey
SnapshotFkViolation(ts, row) == row.tournamentId \notin ts

\* prisma.snapshot.create: the error it rejects with, Null when it inserts.
SnapshotCreateError(ts, table, row) ==
    IF SnapshotPkViolation(table, row) THEN "P2002:id"
    ELSE IF SnapshotUniqueViolation(table, row)
         THEN "P2002:tournamentId_snapshotType"
    ELSE IF SnapshotFkViolation(ts, row) THEN "P2003:tournamentId"
    ELSE Null

RewardPoolUniqueViolation_Dropped(table, row) == FALSE

\* reward_pools_tournamentId_key
RewardPoolUniqueViolation(table, row) ==
    \E p \in table : p.tournamentId = row.tournamentId

\* prisma.rewardPool.create: the error it rejects with, Null when it inserts.
RewardPoolCreateError(ts, table, row) ==
    IF \E p \in table : p.id = row.id THEN "P2002:id"
    ELSE IF RewardPoolUniqueViolation(table, row) THEN "P2002:tournamentId"
    ELSE IF row.tournamentId \notin ts THEN "P2003:tournamentId"
    ELSE Null

\* prisma.userReward.create: the error it rejects with, Null when it inserts.
UserRewardCreateError(pools, table, row) ==
    IF \E r \in table : r.id = row.id THEN "P2002:id"
    ELSE IF ~ \E p \in pools : p.id = row.rewardPoolId
         THEN "P2003:rewardPoolId"
    ELSE Null

SnapshotOf(table, t, ty) ==
    {s \in table : s.tournamentId = t /\ s.snapshotType = ty}

(***************************************************************************)
(* Tournament creation                                                     *)
(***************************************************************************)
\* The columns of a tournament the model follows; the row of an id that is
\* not in the table is NoTournamentRow.
NoTournamentRow == [status |-> Null, matchId |-> Null, eligiblePlayers |-> <<>>]
MatchIds == {Null, "m1"}

\* POST /api/admin/tournaments: the tournament alone.
AdminCreateTournament(t, matchId) ==
    /\ t \notin tournaments
    /\ tournaments' = tournaments \cup {t}
    /\ tournamentRows' =
         [tournamentRows EXCEPT ![t] = [status |-> "UPCOMING",
                                        matchId |-> matchId,
                                        eligiblePlayers |-> <<>>]]
    /\ UNCHANGED <<snapshots, rewardPools, userRewards, configVars, slot, ledger,
                   imports, importPc, statusCalls, snapResponse,
                   statusResponse, runVars>>

\* validateTournament: the error of the validation, Null when it passes.
ValidateTournament(ts, t) ==
    IF t \in ts THEN [status |-> 200, error |-> Null]
    ELSE [status |-> 404, error |-> "Tournament not found"]

\* Values of the status field a caller sends; Null is a body without it.
TournamentStatuses == {"UPCOMING", "ONGOING", "COMPLETED"}

\* PUT /api/admin/tournaments/:id
UpdateTournament(t, status) ==
    /\ IF t \notin tournaments
       THEN /\ tournamentResponse' =
                 [status |-> 500, error |-> "Failed to update tournament"]
            /\ UNCHANGED tournamentRows
       ELSE /\ tournamentRows' =
                 IF status # Null
                 THEN [tournamentRows EXCEPT ![t].status = status]
                 ELSE tournamentRows
            /\ tournamentResponse' = [status |-> 200, error |-> Null]
    /\ UNCHANGED <<dbVars, schema, adminConfigured, adapterVars, slot, ledger,
                   imports, importPc, statusCalls, snapResponse,
                   statusResponse, runVars, poolResponse, serviceVars>>

\* What the foreign keys to tournaments do when a tournament is deleted.
\* snapshots_tournamentId_fkey is ON DELETE CASCADE; the foreign key of
\* reward_pools is declared outside the migrations at hand.
RewardPoolsOnDelete == {"CASCADE", "RESTRICT"}

\* DELETE /api/admin/tournaments/:id
DeleteTournament(t, poolsOnDelete) ==
    /\ IF t \notin tournaments
       THEN /\ tournamentResponse' =
                 [status |-> 404, error |-> "Tournament not found"]
            /\ UNCHANGED <<dbVars, tournamentRows>>
       ELSE IF (\E p \in rewardPools : p.tournamentId = t)
               /\ poolsOnDelete = "RESTRICT"
       THEN /\ tournamentResponse' =
                 [status |-> 500, error |-> "Failed to delete tournament"]
            /\ UNCHANGED <<dbVars, tournamentRows>>
       ELSE LET pools == {p \in rewardPools : p.tournamentId = t}
            IN  /\ tournaments' = tournaments \ {t}
                /\ tournamentRows' =
                     [tournamentRows EXCEPT ![t] = NoTournamentRow]
                /\ snapshots' = {sn \in snapshots : sn.tournamentId # t}
                /\ rewardPools' = rewardPools \ pools
                /\ userRewards' =
                     {r \in userRewards :
                         r.rewardPoolId \notin {p.id : p \in pools}}
                /\ tournamentResponse' = [status |-> 200, error |-> Null]
    /\ UNCHANGED <<schema, adminConfigured, adapterVars, slot, ledger,
                   imports, importPc, statusCalls, snapResponse,
                   statusResponse, runVars, poolResponse, serviceVars>>

\* Answers of getEligiblePlayers: the moduleName of each player found ("" for
\* a player without one).
EligiblePlayerAnswers ==
    {<<>>, <<"P1">>, <<"P2", "P1">>, <<"P1", "">>}

\* POST /api/tournaments/:id/store-eligible-players
StoreEligiblePlayersForTournament(t, players, apiThrows) ==
    /\ LET validation == ValidateTournament(tournaments, t)
           moduleNames == SelectSeq(players, LAMBDA m : m # "")
       IN  IF validation.error # Null
           THEN /\ tournamentResponse' = validation
                /\ UNCHANGED tournamentRows
           ELSE IF tournamentRows[t].matchId = Null
           THEN /\ tournamentResponse' =
                     [status |-> 400,
                      error |-> "Tournament does not have a match ID"]
                /\ UNCHANGED tournamentRows
           ELSE IF apiThrows
           THEN /\ tournamentResponse' =
                     [status |-> 500,
                      error |-> "Failed to store eligible players"]
                /\ UNCHANGED tournamentRows
           ELSE IF Len(players) = 0
           THEN /\ tournamentResponse' =
                     [status |-> 404, error |-> "No eligible players found"]
                /\ UNCHANGED tournamentRows
           ELSE /\ tournamentRows' =
                     [tournamentRows EXCEPT ![t].eligiblePlayers = moduleNames]
                /\ tournamentResponse' = [status |-> 200, error |-> Null]
    /\ UNCHANGED <<dbVars, schema, adminConfigured, adapterVars, slot, ledger,
                   imports, importPc, statusCalls, snapResponse,
                   statusResponse, runVars, poolResponse, serviceVars>>

\* POST /api/rewards/create-pool.  totalAmount 0 stands for a body without
\* one of the required fields; rulesParse is whether distributionRules is
\* valid JSON.
CreateRewardPool(t, totalAmount, rulesParse) ==
    /\ LET validation == ValidateTournament(tournaments, t)
           row == [id |-> FreshId("p", {p.id : p \in rewardPools}),
                   tournamentId |-> t, totalAmount |-> totalAmount,
                   distributedAmount |-> 0]
           err == RewardPoolCreateError(tournaments, rewardPools, row)
       IN  IF t = NoId \/ totalAmount = 0
           THEN /\ poolResponse' =
                     [status |-> 400, error |-> "All fields are required"]
                /\ UNCHANGED rewardPools
           ELSE IF validation.error # Null
           THEN /\ poolResponse' = validation
                /\ UNCHANGED rewardPools
           ELSE IF ~ rulesParse \/ err # Null
           THEN /\ poolResponse' =
                     [status |-> 500,
                      error |-> "Failed to create reward pool"]
                /\ UNCHANGED rewardPools
           ELSE /\ rewardPools' = rewardPools \cup {row}
                /\ poolResponse' = [status |-> 200, error |-> Null]
    /\ UNCHANGED <<tournaments, snapshots, userRewards, tournamentRows,
                   tournamentResponse, schema, adminConfigured, adapterVars,
                   slot, ledger, imports, importPc, statusCalls, snapResponse,
                   statusResponse, runVars, serviceVars>>

\* npm run tournament:create: the tournament and its prize pool.
ScriptCreateTournament(t) ==
    /\ t \notin tournaments
    /\ tournaments' = tournaments \cup {t}
    /\ tournamentRows' =
         [tournamentRows EXCEPT ![t] = [status |-> "UPCOMING",
                                        matchId |-> "m1",
                                        eligiblePlayers |-> <<>>]]
    /\ LET row == [id |-> FreshId("p", {p.id : p \in rewardPools}),
                   tournamentId |-> t,
                   totalAmount |-> ScriptRewardPoolAmount,
                   distributedAmount |-> 0]
       IN rewardPools' =
              IF ScriptRewardPoolAmount > 0
                 /\ RewardPoolCreateError(tournaments', rewardPools, row) = Null
              THEN rewardPools \cup {row}
              ELSE rewardPools
    /\ UNCHANGED <<snapshots, userRewards, configVars, slot, ledger, imports,
                   importPc, statusCalls, snapResponse, statusResponse,
                   runVars>>

(***************************************************************************)
(* Snapshot capture                                                        *)
(***************************************************************************)
\* The ledger moves on.
AdvanceSlot ==
    /\ slot < MaxSlot
    /\ slot' = slot + 1
    /\ UNCHANGED <<dbVars, envVars, ledger, imports, importPc, statusCalls,
                   snapResponse, statusResponse, runVars>>

\* createContractSnapshot: the table after the call and the error thrown
\* (Null when the snapshot was persisted).  h is the ledger's answer to the
\* holder queries, blk the ledger position read.
ContractSnapshot(ts, table, t, ty, h, blk) ==
    LET row == [id |-> FreshId("s", {s.id : s \in table}),
                tournamentId |-> t, snapshotType |-> ty,
                blockNumber |-> blk, data |-> h]
        err == SnapshotCreateError(ts, table, row)
    IN  IF t \notin ts
        THEN [table |-> table, error |-> "TournamentNotFound"]
        ELSE IF err = "P2002:tournamentId_snapshotType"
        THEN [table |-> table, error |-> "DuplicateSnapshotError"]
        ELSE IF err # Null THEN [table |-> table, error |-> err]
        ELSE [table |-> table \cup {row}, error |-> Null]

\* getCurrentBlockNumber: the slot read from the ledger, or 0 when getSlot
\* throws.
GetCurrentBlockNumber(slotNow, getSlotThrows) ==
    IF getSlotThrows THEN 0 ELSE slotNow

\* POST /api/snapshots/create
CreateSnapshot(t, ty, h, getSlotThrows) ==
    /\ IF t = NoId \/ ty = NoId
       THEN /\ snapResponse' = [status |-> 400, error |-> "required"]
            /\ UNCHANGED snapshots
       ELSE IF ty \notin SnapshotTypes
       THEN /\ snapResponse' = [status |-> 400, error |-> "type"]
            /\ UNCHANGED snapshots
       ELSE LET blk == GetCurrentBlockNumber(slot, getSlotThrows)
                result == ContractSnapshot(tournaments, snapshots, t, ty, h,
                                           blk)
            IN  /\ snapshots' = result.table
                /\ snapResponse' =
                       IF result.error = Null
                       THEN [status |-> 200, error |-> Null]
                       ELSE [status |-> 500, error |-> result.error]
    /\ UNCHANGED <<tournaments, rewardPools, userRewards, envVars, slot,
                   ledger, imports, importPc, statusCalls, statusResponse,
                   runVars>>

(***************************************************************************)
(* The import script                                                       *)
(***************************************************************************)

\* Rows a backup file can hold.  The script restores status and matchId of
\* a tournament and leaves eligiblePlayers at its default; the backup was
\* taken before the match.
BackupTournamentRow ==
    [status |-> "UPCOMING", matchId |-> "m1", eligiblePlayers |-> <<>>]
BackupRewardPools ==
    [id : {<<"p", 1>>, <<"p", 9>>}, tournamentId : Tournaments,
     totalAmount : {30}, distributedAmount : {0}]
BackupUserRewards ==
    { [id |-> <<"r", 9>>, address |-> "a1", rewardPoolId |-> <<"p", 9>>,
       amount |-> 10, status |-> "PENDING", transactionId |-> NullId],
      [id |-> <<"r", 9>>, address |-> "a1", rewardPoolId |-> <<"p", 9>>,
       amount |-> 10, status |-> "COMPLETED",
       transactionId |-> <<"txB", 1>>] }
BackupSnapshots ==
    [id : {<<"s", 8>>, <<"s", 9>>}, contractType : SnapshotTypes,
     tournamentId : Tournaments \cup {NoId}, blockNumber : {0},
     data : {[a \in Addresses |-> 1]}]

ImportStart ==
    /\ imports < MaxImports
    /\ importPc \in {"idle", "done", "failed"}
    /\ imports' = imports + 1
    /\ importPc' = "tournaments"
    /\ UNCHANGED <<dbVars, envVars, slot, ledger, statusCalls, snapResponse,
                   statusResponse, runVars>>

\* The file of the stage is exhausted (or absent): on to the next one.
ImportNextStage ==
    /\ importPc \in {"tournaments", "rewardPools", "userRewards", "snapshots"}
    /\ importPc' = CASE importPc = "tournaments" -> "rewardPools"
                     [] importPc = "rewardPools" -> "userRewards"
                     [] importPc = "userRewards" -> "snapshots"
                     [] importPc = "snapshots" -> "done"
    /\ UNCHANGED <<dbVars, envVars, slot, ledger, imports, statusCalls,
                   snapResponse, statusResponse, runVars>>

ImportTournament(t) ==
    /\ importPc = "tournaments"
    /\ IF t \in tournaments
       THEN importPc' = "failed" /\ UNCHANGED <<tournaments, tournamentRows>>
       ELSE /\ tournaments' = tournaments \cup {t}
            /\ tournamentRows' =
                 [tournamentRows EXCEPT ![t] = BackupTournamentRow]
            /\ UNCHANGED importPc
    /\ UNCHANGED <<snapshots, rewardPools, userRewards, configVars, slot, ledger,
                   imports, statusCalls, snapResponse, statusResponse,
                   runVars>>

ImportRewardPool(row) ==
    /\ importPc = "rewardPools"
    /\ IF RewardPoolCreateError(tournaments, rewardPools, row) # Null
       THEN importPc' = "failed" /\ UNCHANGED rewardPools
       ELSE rewardPools' = rewardPools \cup {row} /\ UNCHANGED importPc
    /\ UNCHANGED <<tournaments, snapshots, userRewards, envVars, slot, ledger,
                   imports, statusCalls, snapResponse, statusResponse,
                   runVars>>

ImportUserReward(row) ==
    /\ importPc = "userRewards"
    /\ IF \/ schema = "legacy"   \* data.transactionId is no column
          \/ UserRewardCreateError(rewardPools, userRewards, row) # Null
       THEN importPc' = "failed" /\ UNCHANGED userRewards
       ELSE userRewards' = userRewards \cup {row} /\ UNCHANGED importPc
    /\ UNCHANGED <<tournaments, snapshots, rewardPools, envVars, slot, ledger,
                   imports, statusCalls, snapResponse, statusResponse,
                   runVars>>

\* One iteration of the snapshot loop: contractType becomes snapshotType,
\* data.tournamentId becomes the tournamentId column.
ImportSnapshot(old) ==
    /\ importPc = "snapshots"
    /\ LET row == [id |-> old.id, tournamentId |-> old.tournamentId,
                   snapshotType |-> old.contractType,
                   blockNumber |-> old.blockNumber, data |-> old.data]
       IN  IF old.tournamentId = NoId
           THEN UNCHANGED <<snapshots, importPc>>
           ELSE IF SnapshotCreateError(tournaments, snapshots, row) # Null
           THEN importPc' = "failed" /\ UNCHANGED snapshots
           ELSE snapshots' = snapshots \cup {row} /\ UNCHANGED importPc
    /\ UNCHANGED <<tournaments, rewardPools, userRewards, envVars, slot,
                   ledger, imports, statusCalls, snapResponse, statusResponse,
                   runVars>>

(***************************************************************************)
(* Reward status requests                                                  *)
(***************************************************************************)
SetReward(table, id, st, tx) ==
    {IF r.id = id THEN [r EXCEPT !.status = st, !.transactionId = tx] ELSE r
       : r \in table}

\* POST /api/rewards/process/:rewardId
ProcessReward(rewardId, aptosTransactionId) ==
    /\ statusCalls < MaxStatusCalls
    /\ statusCalls' = statusCalls + 1
    /\ LET found == {r \in userRewards : r.id = rewardId}
       IN  IF found = {}
           THEN /\ statusResponse' = [status |-> 404, error |-> "not found"]
                /\ UNCHANGED userRewards
           ELSE IF (CHOOSE r \in found : TRUE).status # "PENDING"
           THEN /\ statusResponse' = [status |-> 400, error |-> "not pending"]
                /\ UNCHANGED userRewards
           ELSE IF schema = "legacy"
           THEN \* data.transactionId is no column of the table
                /\ statusResponse' = [status |-> 500, error |-> "failed"]
                /\ UNCHANGED userRewards
           ELSE /\ userRewards' = SetReward(userRewards, rewardId,
                                            "PROCESSING", aptosTransactionId)
                /\ statusResponse' = [status |-> 200, error |-> Null]
    /\ UNCHANGED <<tournaments, snapshots, rewardPools, envVars, slot, ledger,
                   imports, importPc, snapResponse, runVars>>

\* PUT /api/rewards/:rewardId/status
UpdateRewardStatus(rewardId, st, aptosTransactionId) ==
    /\ statusCalls < MaxStatusCalls
    /\ statusCalls' = statusCalls + 1
    /\ LET found == {r \in userRewards : r.id = rewardId}
       IN  IF st \notin Statuses
           THEN /\ statusResponse' = [status |-> 400, error |-> "status"]
                /\ UNCHANGED userRewards
           ELSE IF found = {}
                   \/ (aptosTransactionId # NullId /\ schema = "migrated")
           THEN \* no such row, or data.aptosTransactionId is no column
                /\ statusResponse' = [status |-> 500, error |-> "failed"]
                /\ UNCHANGED userRewards
           ELSE LET r == CHOOSE x \in found : TRUE
                IN  /\ userRewards' =
                           SetReward(userRewards, rewardId,
                                     st,
                                     IF aptosTransactionId # NullId
                                     THEN aptosTransactionId
                                     ELSE r.transactionId)
                    /\ statusResponse' = [status |-> 200, error |-> Null]
    /\ UNCHANGED <<tournaments, snapshots, rewardPools, envVars, slot, ledger,
                   imports, importPc, snapResponse, runVars>>

(***************************************************************************)
(* Reward calculation                                                      *)
(***************************************************************************)
Position(a) == CHOOSE k \in 1..Len(AddressOrder) : AddressOrder[k] = a

RECURSIVE SumWeights(_, _)
SumWeights(w, S) ==
    IF S = {} THEN 0
    ELSE LET a == CHOOSE x \in S : TRUE IN w[a] + SumWeights(w, S \ {a})

\* calculateRewardsFromSnapshots: the error thrown, or the ranked list of
\* {address, rewardAmount, rank}.
CalculateRewardsFromSnapshots(table, t, total) ==
    LET pre == SnapshotOf(table, t, "PRE_MATCH")
        post == SnapshotOf(table, t, "POST_MATCH")
    IN  IF pre = {}
        THEN [error |-> "MissingSnapshotError:PRE_MATCH", list |-> <<>>]
        ELSE IF post = {}
        THEN [error |-> "MissingSnapshotError:POST_MATCH", list |-> <<>>]
        ELSE
        LET w == (CHOOSE s \in pre : TRUE).data
            after == (CHOOSE s \in post : TRUE).data
            eligible == {a \in Addresses : w[a] > 0 /\ after[a] > 0}
            totalWeight == SumWeights(w, eligible)
            Rank(a) == 1 + Cardinality(
                {b \in eligible : \/ w[b] > w[a]
                                  \/ w[b] = w[a] /\ Position(b) < Position(a)})
            Floor(a) == (total * w[a]) \div totalWeight
            RECURSIVE SumFloor(_)
            SumFloor(S) ==
                IF S = {} THEN 0
                ELSE LET a == CHOOSE x \in S : TRUE
                     IN Floor(a) + SumFloor(S \ {a})
            remainder == total - SumFloor(eligible)
            Share(a) == Floor(a) + (IF Rank(a) = 1 THEN remainder ELSE 0)
        IN  [error |-> Null,
             list |-> [k \in 1..Cardinality(eligible) |->
                         LET a == CHOOSE x \in eligible : Rank(x) = k
                         IN [address |-> a, rewardAmount |-> Share(a),
                             rank |-> k]]]

(***************************************************************************)
(* Reward distribution                                                     *)
(***************************************************************************)
\* Outcomes of one blockchain.transferTokens call.
\*   rejected:    failed before sendTransaction (balance, simulation, ...)
\*   unconfirmed: sent, then the confirmation failed or reported an error
\*   confirmed:   sent and confirmed
TransferOutcomes == {"rejected", "unconfirmed", "confirmed"}

Submitted(outcome) == outcome \in {"unconfirmed", "confirmed"}

\* The body of the try block for a reward below the minimum.
SkippedResult(reward) ==
    [address |-> reward.address, rewardAmount |-> reward.rewardAmount,
     rank |-> reward.rank, status |-> "skipped",
     reason |-> "Amount too small", error |-> Null, transactionId |-> NullId]

\* The entry pushed after blockchain.transferTokens returned.
TransferResult(reward, outcome, signature) ==
    IF outcome = "confirmed"
    THEN [address |-> reward.address, rewardAmount |-> reward.rewardAmount,
          rank |-> reward.rank, status |-> "success", reason |-> Null,
          error |-> Null, transactionId |-> signature]
    ELSE [address |-> reward.address, rewardAmount |-> reward.rewardAmount,
          rank |-> reward.rank, status |-> "failed", reason |-> Null,
          error |-> IF outcome = "rejected" THEN "Transaction rejected"
                    ELSE "Transaction confirmation failed",
          transactionId |-> NullId]

NextIndex_BreakOnFailure(i, n, status) ==
    IF status = "failed" THEN n + 1 ELSE i + 1

NextIndex_RetryFailed(i, n, status) ==
    IF status = "failed" THEN i ELSE i + 1

\* for (const reward of rewardCalculations): the position after the
\* iteration at position i of n that ended with the given status.
NextIndex(i, n, status) == i + 1

TooSmall_Never(reward) == FALSE

\* reward.rewardAmount < REWARD_CONFIG.MIN_REWARD_AMOUNT
TooSmall(reward) == reward.rewardAmount < MIN_REWARD_AMOUNT

AmountInBaseUnits_WrongDecimals(reward) ==
    reward.rewardAmount * BaseUnitsPerUnit * 10

\* Math.floor(reward.rewardAmount * multiplier)
AmountInBaseUnits(reward) == reward.rewardAmount * BaseUnitsPerUnit

WithStatus(results, st) == SelectSeq(results, LAMBDA r : r.status = st)

\* calculateTransferSummary
CalculateTransferSummary(results, totalRewardAmount) ==
    [totalUsers |-> Len(results),
     successful |-> Len(WithStatus(results, "success")),
     failed |-> Len(WithStatus(results, "failed")),
     skipped |-> Len(WithStatus(results, "skipped")),
     totalDistributed |-> SumRewardAmount(WithStatus(results, "success")),
     totalRewardPool |-> totalRewardAmount,
     successfulTransfers |-> WithStatus(results, "success"),
     failedTransfers |-> WithStatus(results, "failed"),
     skippedTransfers |-> WithStatus(results, "skipped")]

SummaryCounts(sm) ==
    [totalUsers |-> sm.totalUsers, successful |-> sm.successful,
     failed |-> sm.failed, skipped |-> sm.skipped,
     totalDistributed |-> sm.totalDistributed,
     totalRewardPool |-> sm.totalRewardPool]

ErrorResponse(st, err) ==
    [status |-> st, error |-> err, summary |-> <<>>, transfers |-> <<>>]

\* The request arrives: body check and validateTournament.
DistributeStart(t, total) ==
    /\ pc \in {"idle", "done"}
    /\ runs < MaxRuns
    /\ runs' = runs + 1
    /\ req' = [tournamentId |-> t, totalRewardAmount |-> total]
    /\ calc' = <<>>
    /\ idx' = 1
    /\ transferResults' = <<>>
    /\ summary' = <<>>
    /\ poolId' = NullId
    /\ rewardRecords' = <<>>
    /\ IF t = NoId \/ total = 0
       THEN /\ response' = ErrorResponse(400, "required")
            /\ pc' = "done"
       ELSE IF ValidateTournament(tournaments, t).error # Null
       THEN /\ response' = ErrorResponse(
                               ValidateTournament(tournaments, t).status,
                               ValidateTournament(tournaments, t).error)
            /\ pc' = "done"
       ELSE /\ response' = ErrorResponse(0, Null)
            /\ pc' = "calculate"
    /\ UNCHANGED <<dbVars, envVars, slot, ledger, imports, importPc,
                   statusCalls, snapResponse, statusResponse>>

Thrown_Swallowed(result) == FALSE

\* await calculateRewardsFromSnapshots(...): a rejection leaves the try
\* block for the catch.
Thrown(result) == result.error # Null

\* Step 1, and the configuration check that opens transferRewardsToUsers.
DistributeCalculate ==
    /\ pc = "calculate"
    /\ LET result == CalculateRewardsFromSnapshots(
                         snapshots, req.tournamentId, req.totalRewardAmount)
       IN  IF Thrown(result)
           THEN /\ response' = ErrorResponse(500, result.error)
                /\ pc' = "done"
                /\ UNCHANGED calc
           ELSE IF ~ adminConfigured
           THEN /\ response' = ErrorResponse(500, "Admin not configured")
                /\ pc' = "done"
                /\ calc' = result.list
           ELSE /\ calc' = result.list
                /\ pc' = "transfer"
                /\ UNCHANGED response
    /\ UNCHANGED <<dbVars, envVars, slot, ledger, imports, importPc,
                   statusCalls, snapResponse, statusResponse, runs, req, idx,
                   transferResults, summary, poolId, rewardRecords>>

\* Step 2: one iteration of the loop of transferRewardsToUsers.
DistributeTransfer(outcome) ==
    /\ pc = "transfer"
    /\ idx <= Len(calc)
    /\ LET reward == calc[idx]
           entry == [run |-> runs, to |-> reward.address,
                     amount |-> AmountInBaseUnits(reward)]
           sent == IF Submitted(outcome) THEN Append(ledger, entry)
                   ELSE ledger
           result == IF TooSmall(reward) THEN SkippedResult(reward)
                     ELSE TransferResult(reward, outcome,
                                         <<"tx", Len(sent)>>)
       IN  /\ ledger' = IF TooSmall(reward) THEN ledger ELSE sent
           /\ TooSmall(reward) => outcome = "rejected"
           /\ transferResults' = Append(transferResults, result)
           /\ idx' = NextIndex(idx, Len(calc), result.status)
    /\ UNCHANGED <<dbVars, envVars, slot, imports, importPc, statusCalls,
                   snapResponse, statusResponse, runs, pc, req, calc, summary,
                   poolId, rewardRecords, response>>

\* Step 3: the loop is over, the summary is computed.
DistributeSummary ==
    /\ pc = "transfer"
    /\ idx > Len(calc)
    /\ summary' = <<CalculateTransferSummary(transferResults,
                                             req.totalRewardAmount)>>
    /\ pc' = "pool"
    /\ UNCHANGED <<dbVars, envVars, slot, ledger, imports, importPc,
                   statusCalls, snapResponse, statusResponse, runs, req, calc,
                   idx, transferResults, poolId, rewardRecords, response>>

\* Step 4: prisma.rewardPool.create.
DistributePool ==
    /\ pc = "pool"
    /\ LET row == [id |-> FreshId("p", {p.id : p \in rewardPools}),
                   tournamentId |-> req.tournamentId,
                   totalAmount |-> req.totalRewardAmount,
                   distributedAmount |-> summary[1].totalDistributed]
           err == RewardPoolCreateError(tournaments, rewardPools, row)
       IN  IF err # Null
           THEN /\ response' = ErrorResponse(500, err)
                /\ pc' = "done"
                /\ UNCHANGED <<rewardPools, poolId>>
           ELSE /\ rewardPools' = rewardPools \cup {row}
                /\ poolId' = row.id
                /\ pc' = "records"
                /\ UNCHANGED response
    /\ UNCHANGED <<tournaments, snapshots, userRewards, envVars, slot, ledger,
                   imports, importPc, statusCalls, snapResponse,
                   statusResponse, runs, req, calc, idx, transferResults,
                   summary, rewardRecords>>

\* The UserReward row stored for a successful transfer.
RewardRecord(id, pool, result) ==
    [id |-> id, address |-> result.address, rewardPoolId |-> pool,
     amount |-> result.rewardAmount, status |-> "COMPLETED",
     transactionId |-> result.transactionId]

\* The transfers of the summary that get a UserReward row.
RecordedTransfers(sm) == sm.successfulTransfers

\* One prisma.userReward.create of the loop over the recorded transfers.
DistributeRecord ==
    /\ pc = "records"
    /\ Len(rewardRecords) < Len(RecordedTransfers(summary[1]))
    /\ LET result == RecordedTransfers(summary[1])[Len(rewardRecords) + 1]
           row == RewardRecord(FreshId("r", {r.id : r \in userRewards}),
                               poolId, result)
           err == IF schema = "migrated"
                  THEN \* data.rank, data.aptosTransactionId are no columns
                       "Unknown argument"
                  ELSE UserRewardCreateError(rewardPools, userRewards, row)
       IN  IF err # Null
           THEN /\ response' = ErrorResponse(500, err)
                /\ pc' = "done"
                /\ UNCHANGED <<userRewards, rewardRecords>>
           ELSE /\ userRewards' = userRewards \cup {row}
                /\ rewardRecords' = Append(rewardRecords, row.id)
                /\ UNCHANGED <<pc, response>>
    /\ UNCHANGED <<tournaments, snapshots, rewardPools, envVars, slot, ledger,
                   imports, importPc, statusCalls, snapResponse,
                   statusResponse, runs, req, calc, idx, transferResults,
                   summary, poolId>>

\* res.json: the summary, the transfers and the records.
DistributeRespond ==
    /\ pc = "records"
    /\ Len(rewardRecords) = Len(RecordedTransfers(summary[1]))
    /\ response' = [status |-> 200, error |-> Null,
                    summary |-> <<SummaryCounts(summary[1])>>,
                    transfers |-> transferResults]
    /\ pc' = "done"
    /\ UNCHANGED <<dbVars, envVars, slot, ledger, imports, importPc,
                   statusCalls, snapResponse, statusResponse, runs, req, calc,
                   idx, transferResults, summary, poolId, rewardRecords>>

(***************************************************************************)
(* Ledger adapter: holder capture                                          *)
(***************************************************************************)
\* Keys of playerMints, in insertion order: the game token and two player
\* tokens.
PlayerMintKeys == <<"Boson", "P1", "P2">>
PlayerMints == {PlayerMintKeys[k] : k \in 1..Len(PlayerMintKeys)}

PLAYER_POOL_ADDRESSES == {"Pool1"}
AMM_PDA == "AmmPda"

\* String.prototype.toLowerCase on the addresses of the model.
LowerCase(a) ==
    CASE a \in {"Pool1", "POOL1", "pool1"} -> "pool1"
      [] a \in {"AmmPda", "AMMPDA", "ammpda"} -> "ammpda"
      [] a \in {"Ign1", "IGN1", "ign1"} -> "ign1"
      [] a \in {"U1", "u1"} -> "u1"
      [] a \in {"U2", "u2"} -> "u2"
      [] OTHER -> a

\* parseIgnoredAddresses: the entries of IGNORED_HOLDER_ADDRESSES, trimmed
\* and lower-cased.
ParseIgnoredAddresses(env) == {LowerCase(v) : v \in env}

IgnoredAddressSet_AsConfigured(env) ==
    ParseIgnoredAddresses(env) \cup {AMM_PDA} \cup PLAYER_POOL_ADDRESSES

\* IGNORED_ADDRESS_SET
IgnoredAddressSet(env) ==
    ParseIgnoredAddresses(env) \cup {LowerCase(AMM_PDA)}
        \cup {LowerCase(addr) : addr \in PLAYER_POOL_ADDRESSES}

\* Values of IGNORED_HOLDER_ADDRESSES.
IgnoredEnvs == {{}, {"IGN1"}, {"ign1"}}

\* Token accounts the ledger answers getParsedProgramAccounts with, per mint.
RawLedgers ==
    { [m \in PlayerMints |->
          CASE m = "Boson" -> <<[owner |-> "U1", amount |-> 5]>>
            [] m = "P1" -> <<[owner |-> "U1", amount |-> 5],
                             [owner |-> "Pool1", amount |-> 9]>>
            [] OTHER -> <<[owner |-> "AmmPda", amount |-> 7],
                          [owner |-> "U2", amount |-> 3]>>],
      [m \in PlayerMints |->
          CASE m = "Boson" -> <<[owner |-> "Ign1", amount |-> 2]>>
            [] m = "P1" -> <<[owner |-> "Ign1", amount |-> 4],
                             [owner |-> "U2", amount |-> 0]>>
            [] OTHER -> <<>>] }

\* Eligible-player lists a capture is called with; <<>> is the absent list.
EligibleLists ==
    {<<>>, <<"P1">>, <<"P2", "P1">>, <<"Boson", "P1">>, <<"PX", "P2">>}

\* The lists a snapshot capture resolves from a tournament's eligible
\* players: non-empty lists of player tokens, the utility token excluded.
TournamentEligiblePlayers ==
    {l \in EligibleLists :
        Len(l) > 0 /\ \A k \in 1..Len(l) : l[k] # "Boson"}

\* getTokenHoldersForPlayer: the holdings of one token.  The mints whose
\* ledger query throws are in failed.
GetTokenHoldersForPlayer(env, raw, failed, playerModule, playerId) ==
    IF playerModule \notin PlayerMints THEN <<>>
    ELSE IF playerModule \in failed THEN <<>>
    ELSE LET kept == SelectSeq(raw[playerModule],
                         LAMBDA acc :
                             /\ acc.amount > 0
                             /\ LowerCase(acc.owner)
                                    \notin IgnoredAddressSet(env))
         IN  [k \in 1..Len(kept) |->
                 [address |-> kept[k].owner, balance |-> kept[k].amount,
                  playerId |-> playerId, moduleName |-> playerModule]]

\* The for loop over playerModules, from position i on.
RECURSIVE HoldersFrom(_, _, _, _, _)
HoldersFrom(env, raw, failed, playerModules, i) ==
    IF i > Len(playerModules) THEN <<>>
    ELSE GetTokenHoldersForPlayer(env, raw, failed, playerModules[i], i)
         \o HoldersFrom(env, raw, failed, playerModules, i + 1)

PlayerModules_WithBoson(eligiblePlayers) ==
    IF Len(eligiblePlayers) > 0
    THEN SelectSeq(eligiblePlayers, LAMBDA m : m \in PlayerMints)
    ELSE PlayerMintKeys

\* getTokenHoldersWithBalances: the tokens it goes through.
PlayerModules(eligiblePlayers) ==
    IF Len(eligiblePlayers) > 0
    THEN SelectSeq(eligiblePlayers,
                   LAMBDA m : m # "Boson" /\ m \in PlayerMints)
    ELSE SelectSeq(PlayerMintKeys, LAMBDA m : m # "Boson")

GetTokenHoldersWithBalances_FailFast(env, raw, failed, eligiblePlayers) ==
    LET mods == PlayerModules(eligiblePlayers)
    IN  IF \E k \in 1..Len(mods) : mods[k] \in failed
        THEN [threw |-> TRUE, queried |-> mods, holders |-> <<>>]
        ELSE [threw |-> FALSE, queried |-> mods,
              holders |-> HoldersFrom(env, raw, failed, mods, 1)]

\* getTokenHoldersWithBalances(eligiblePlayers?): the mints queried on the
\* ledger and what the caller receives.
GetTokenHoldersWithBalances(env, raw, failed, eligiblePlayers) ==
    LET mods == PlayerModules(eligiblePlayers)
    IN  [threw |-> FALSE, queried |-> mods,
         holders |-> HoldersFrom(env, raw, failed, mods, 1)]

\* getTokenHoldersWithBalancesForEligiblePlayers(eligiblePlayers)
GetTokenHoldersWithBalancesForEligiblePlayers(env, raw, failed, el) ==
    LET valid == SelectSeq(el, LAMBDA m : m \in PlayerMints)
    IN  [threw |-> FALSE, queried |-> valid,
         holders |-> HoldersFrom(env, raw, failed, valid, 1)]

\* What a capture through the given entry point returns.
CaptureResult(entry, env, raw, failed, eligiblePlayers) ==
    IF entry = "getTokenHoldersWithBalances"
    THEN GetTokenHoldersWithBalances(env, raw, failed, eligiblePlayers)
    ELSE GetTokenHoldersWithBalancesForEligiblePlayers(env, raw, failed,
                                                       eligiblePlayers)


NoCapture ==
    [pc |-> "idle", entry |-> Null, env |-> {}, raw |-> <<>>, failed |-> {},
     eligiblePlayers |-> <<>>, threw |-> FALSE, queried |-> <<>>,
     holders |-> <<>>]

\* A snapshot capture asks the adapter for the holdings.
CaptureHoldings(entry, env, raw, failed, eligiblePlayers) ==
    /\ LET result == CaptureResult(entry, env, raw, failed, eligiblePlayers)
       IN  capture' = [pc |-> "done", entry |-> entry, env |-> env,
                       raw |-> raw, failed |-> failed,
                       eligiblePlayers |-> eligiblePlayers,
                       threw |-> result.threw, queried |-> result.queried,
                       holders |-> result.holders]
    /\ UNCHANGED <<backendVars, xfer, batch>>

(***************************************************************************)
(* Ledger adapter: transferTokens                                          *)
(*                                                                         *)
(* The repository holds three revisions of transferTokens.  Amounts are    *)
(* JavaScript numbers, counted here in halves of a base unit so that an    *)
(* amount below one base unit exists.                                      *)
(***************************************************************************)
AdapterBuilds == {"part_010", "solana.adapter.ts", "part_011"}
TransferAmounts == {0, 1, 2, 5}

\* maxAttempts of the status polling loop.
MaxAttempts == 30

\* Math.floor(amount)
Floor(amount) == amount \div 2
IsInteger(amount) == amount % 2 = 0

\* The revision checks the amount before building the transaction.
HasAmountGuard(build) ==
    build \in {"solana.adapter.ts", "part_011", "part_012"}
\* The revision waits for the confirmation by polling getSignatureStatus.
PollsStatus(build) == build = "part_011"
\* The revision retries confirmTransaction and looks the status up itself.
RetriesConfirmation(build) == build = "part_012"
\* maxRetries of that loop.
MaxRetries == 3

\* The condition of the polling loop.
PollAgain_Unbounded(attempt) == TRUE

PollAgain(attempt) == attempt < MaxAttempts

\* Answers of getSignatureStatus.
SignatureStatuses ==
    {"absent", "processed", "confirmed", "finalized", "confirmed_err",
     "throws"}

\* Ways connection.confirmTransaction(signature, 'confirmed') ends.
ConfirmOutcomes == {"ok", "err", "timeout", "rpc_error"}

\* Error messages of a TransferResult.
ErrInvalidInput == "Failed to parse private key / Invalid address"
ErrInvalidAmount == "Invalid transfer amount. Must be greater than 0."
ErrPrecheck == "Failed to check source account balance"
ErrSimulation == "Transaction simulation failed"
ErrSend == "Failed to send transaction"
ErrBigInt == "The number cannot be converted to a BigInt"
ErrTimeout ==
    "Transaction confirmation timeout. Transaction may still succeed"
ErrLibTimeout ==
    "Transaction was not confirmed. It is unknown if it succeeded or failed"
ErrConfirmFailedTimeout ==
    "Transaction confirmation failed: Transaction was not confirmed. It is unknown if it succeeded or failed"
ErrConfirmFailed == "Transaction confirmation failed: rpc error"
ErrRpc == "rpc error"
ErrTransactionFailed == "Transaction failed"

ErrDestCheckNotFound ==
    "Failed to check destination account: TokenAccountNotFoundError"
ErrDestCheckRpc == "Failed to check destination account: rpc error"

\* Ways the lookup of the destination token account ends.  The token
\* library reports an absent account by an error; whether its message holds
\* the text 'could not find account' depends on the library's version.
\*   found, missing_message (error with the text), missing_error (error
\*   without it), rpc_error
DestCheckAnswers(destExists) ==
    IF destExists THEN {"found", "rpc_error"}
    ELSE {"missing_message", "missing_error", "rpc_error"}

\* destinationAccountExists after the lookup: "yes", "no", or "throw" when
\* the lookup ends the transfer.
DestinationAccountExists(build, destCheck) ==
    IF build \in {"part_011", "part_012"}
    THEN IF destCheck = "found" THEN "yes" ELSE "no"
    ELSE CASE destCheck = "found" -> "yes"
           [] destCheck = "missing_message" -> "no"
           [] OTHER -> "throw"

\* The instructions of the transaction, in order.
Instructions(build, exists) ==
    IF HasAmountGuard(build) /\ exists = "no"
    THEN <<"createAssociatedTokenAccount", "transfer">>
    ELSE <<"transfer">>

\* The ledger executes the transaction: the destination account is there
\* when the transfer instruction runs, and is not created twice.
LedgerAccepts(x) ==
    x.destExists # (x.instructions[1] = "createAssociatedTokenAccount")

NoTransfer ==
    [pc |-> "idle", build |-> Null, amount |-> 0, destExists |-> TRUE,
     instructions |-> <<>>, submissions |-> 0,
     polls |-> 0, retries |-> 0, confirmation |-> Null, observed |-> Null,
     waited |-> Null,
     success |-> FALSE, error |-> Null]

\* return of the catch block: { success: false, error }
TransferFailed(x, err) ==
    [x EXCEPT !.pc = "done", !.success = FALSE, !.error = err]

\* transferTokens is called.
TransferTokens(build, amount, destExists) ==
    /\ xfer.pc = "idle"
    /\ xfer' = [NoTransfer EXCEPT !.pc = "prepare", !.build = build,
                                  !.amount = amount,
                                  !.destExists = destExists]
    /\ UNCHANGED <<backendVars, capture, batch>>

\* From the parsing of the key to the built (and simulated) transaction.
TransferPrepare(outcome, destCheck) ==
    /\ xfer.pc = "prepare"
    /\ outcome \in {"ok", "invalid_input", "precheck_failed",
                     "simulation_failed"}
    /\ destCheck \in DestCheckAnswers(xfer.destExists)
    /\ LET exists == DestinationAccountExists(xfer.build, destCheck)
           built == [xfer EXCEPT
                       !.instructions = Instructions(xfer.build, exists)]
       IN  xfer' =
             IF outcome = "invalid_input"
             THEN TransferFailed(xfer, ErrInvalidInput)
             ELSE IF HasAmountGuard(xfer.build)
             THEN IF Floor(xfer.amount) <= 0
                  THEN TransferFailed(xfer, ErrInvalidAmount)
                  ELSE IF outcome = "precheck_failed"
                  THEN TransferFailed(xfer, ErrPrecheck)
                  ELSE IF exists = "throw"
                  THEN TransferFailed(xfer,
                           IF destCheck = "rpc_error" THEN ErrDestCheckRpc
                           ELSE ErrDestCheckNotFound)
                  ELSE IF outcome = "simulation_failed"
                          \/ ~ LedgerAccepts(built)
                  THEN TransferFailed(built, ErrSimulation)
                  ELSE [built EXCEPT !.pc = "send"]
             ELSE [built EXCEPT !.pc = "send"]
    /\ \/ HasAmountGuard(xfer.build)
       \/ outcome \in {"ok", "invalid_input"} /\ destCheck # "rpc_error"
    /\ UNCHANGED <<backendVars, capture, batch>>

\* createTransferInstruction(..., amount, ...) of part_010 with an amount
\* that is not an integer: the token library of the build either refuses
\* the number or encodes its integer part.
TransferEncodeRefused ==
    /\ xfer.pc = "send"
    /\ ~ HasAmountGuard(xfer.build)
    /\ ~ IsInteger(xfer.amount)
    /\ xfer' = TransferFailed(xfer, ErrBigInt)
    /\ UNCHANGED <<backendVars, capture, batch>>

\* connection.sendTransaction
TransferSend(outcome) ==
    /\ xfer.pc = "send"
    /\ outcome \in {"sent", "rejected"}
    /\ xfer' =
         IF outcome = "rejected" \/ ~ LedgerAccepts(xfer)
         THEN TransferFailed(xfer, IF xfer.build \in {"part_011", "part_012"}
                                   THEN ErrSend
                                   ELSE ErrRpc)
         ELSE [xfer EXCEPT !.pc = "confirm",
                           !.submissions = xfer.submissions + 1]
    /\ UNCHANGED <<backendVars, capture, batch>>

\* One round of the polling loop: getSignatureStatus and the 2 s wait.
TransferPoll(status) ==
    /\ xfer.pc = "confirm"
    /\ PollsStatus(xfer.build)
    /\ xfer.confirmation = Null
    /\ PollAgain(xfer.polls)
    /\ status \in SignatureStatuses
    /\ xfer' = [xfer EXCEPT
                   !.polls = xfer.polls + 1,
                   !.confirmation =
                       IF status \in {"confirmed", "finalized"} THEN "ok"
                       ELSE IF status = "confirmed_err" THEN "err"
                       ELSE Null,
                   !.observed =
                       IF status \in {"confirmed", "finalized"} THEN status
                       ELSE IF status = "confirmed_err" THEN "confirmed"
                       ELSE Null]
    /\ UNCHANGED <<backendVars, capture, batch>>

\* After the polling loop.
TransferPollEnd ==
    /\ xfer.pc = "confirm"
    /\ PollsStatus(xfer.build)
    /\ xfer.confirmation # Null \/ ~ PollAgain(xfer.polls)
    /\ xfer' =
         IF xfer.confirmation = Null
         THEN [TransferFailed(xfer, ErrTimeout) EXCEPT !.waited = "timeout"]
         ELSE IF xfer.confirmation = "err"
         THEN [TransferFailed(xfer, ErrTransactionFailed)
                  EXCEPT !.waited = "confirmed"]
         ELSE [xfer EXCEPT !.pc = "done", !.success = TRUE,
                           !.waited = "confirmed"]
    /\ UNCHANGED <<backendVars, capture, batch>>

\* connection.confirmTransaction(signature, 'confirmed') and the return.
TransferConfirm(outcome) ==
    /\ xfer.pc = "confirm"
    /\ ~ PollsStatus(xfer.build)
    /\ ~ RetriesConfirmation(xfer.build)
    /\ outcome \in ConfirmOutcomes
    /\ LET wrapped == xfer.build = "solana.adapter.ts"
       IN  xfer' =
             CASE outcome = "ok" ->
                    [xfer EXCEPT !.pc = "done", !.success = TRUE,
                                 !.confirmation = "ok",
                                 !.observed = "confirmed",
                                 !.waited = "confirmed"]
               [] outcome = "err" ->
                    [xfer EXCEPT !.pc = "done", !.success = FALSE,
                                 !.confirmation = "err",
                                 !.observed = "confirmed",
                                 !.waited = "confirmed",
                                 !.error = IF wrapped
                                           THEN ErrTransactionFailed
                                           ELSE Null]
               [] outcome = "timeout" ->
                    [TransferFailed(xfer, IF wrapped
                                          THEN ErrConfirmFailedTimeout
                                          ELSE ErrLibTimeout)
                        EXCEPT !.waited = "timeout"]
               [] OTHER ->
                    [TransferFailed(xfer, IF wrapped THEN ErrConfirmFailed
                                          ELSE ErrRpc)
                        EXCEPT !.waited = "error"]
    /\ UNCHANGED <<backendVars, capture, batch>>

ErrConfirmRetries == "Transaction confirmation failed after 3 retries"

\* The return once confirmation = { value: { err } } is set: conf is "ok"
\* when err is empty, observed the status it was taken from.
TransferConcluded(x, conf, observed) ==
    IF conf = "err"
    THEN [TransferFailed(x, ErrTransactionFailed)
             EXCEPT !.confirmation = conf, !.observed = observed,
                    !.waited = "confirmed"]
    ELSE [x EXCEPT !.pc = "done", !.success = TRUE, !.confirmation = conf,
                   !.observed = observed, !.waited = "confirmed"]

\* The status a getSignatureStatus answer carries, and whether it has err.
StatusOf(status) == IF status = "confirmed_err" THEN "confirmed" ELSE status
ErrOf(status) == IF status = "confirmed_err" THEN "err" ELSE "ok"

\* One round of the retry loop of part_012: confirmTransaction raced with a
\* 60 s timer; when that throws, getSignatureStatus (status); after the last
\* retry, getSignatureStatus once more (finalStatus).
TransferConfirmRetry(outcome, status, finalStatus) ==
    /\ xfer.pc = "confirm"
    /\ RetriesConfirmation(xfer.build)
    /\ xfer.retries < MaxRetries
    /\ outcome \in ConfirmOutcomes
    /\ status \in SignatureStatuses
    /\ finalStatus \in SignatureStatuses
    /\ xfer' =
         IF outcome \in {"ok", "err"}
         THEN TransferConcluded(xfer, outcome, "confirmed")
         ELSE IF status \in {"confirmed", "finalized", "confirmed_err"}
         THEN TransferConcluded([xfer EXCEPT !.polls = xfer.polls + 1],
                                ErrOf(status), StatusOf(status))
         ELSE IF xfer.retries + 1 < MaxRetries
         THEN [xfer EXCEPT !.polls = xfer.polls + 1,
                           !.retries = xfer.retries + 1]
         ELSE LET last == [xfer EXCEPT !.polls = xfer.polls + 2,
                                       !.retries = xfer.retries + 1]
              IN  IF finalStatus \in {"absent", "throws"}
                  THEN [TransferFailed(last, ErrConfirmRetries)
                           EXCEPT !.waited = outcome]
                  ELSE TransferConcluded(last, ErrOf(finalStatus),
                                         StatusOf(finalStatus))
    /\ UNCHANGED <<backendVars, capture, batch>>

(***************************************************************************)
(* Ledger adapter: batchTransferTokens                                     *)
(***************************************************************************)
\* The default of the batchSize parameter.
DefaultBatchSize == 5
BatchSizes == {1, 2, DefaultBatchSize}

\* Values of batchSize a caller can pass, zero and a negative one included.
AnyBatchSizes == {-1, 0, 1, 2}

\* Cooldowns the model counts.
MaxCooldowns == 8

NoBatch ==
    [pc |-> "idle", n |-> 0, batchSize |-> DefaultBatchSize, i |-> 0,
     inflight |-> {}, outcome |-> <<>>, results |-> <<>>, cooldowns |-> 0]

\* An argument of Array.prototype.slice on an array of length n: a negative
\* one counts from the end, and the result is kept within 0..n.
SliceIndex(x, n) ==
    IF x < 0 THEN (IF n + x < 0 THEN 0 ELSE n + x)
    ELSE IF x > n THEN n ELSE x

\* transfers.slice(i, i + batchSize), as positions of transfers (from 1).
BatchSlice(i, batchSize, n) ==
    {k \in 1..n : SliceIndex(i, n) < k /\ k <= SliceIndex(i + batchSize, n)}

\* i += batchSize.  slice and the tests of the loop treat every i <= -n
\* alike, so an i below -n is kept as -n.
NextBatchIndex(i, batchSize, n) ==
    IF i + batchSize < 0 - n THEN 0 - n ELSE i + batchSize

\* Promise.allSettled(batchPromises) has resolved.
BatchSettled_Any(inflight) == TRUE

BatchSettled(inflight) == inflight = {}

\* The results of the batch, in the order of the batch.
RECURSIVE BatchResults(_, _, _)
BatchResults(outcome, k, last) ==
    IF k > last THEN <<>>
    ELSE <<[index |-> k, success |-> outcome[k] = "ok"]>>
         \o BatchResults(outcome, k + 1, last)

\* batchTransferTokens is called with n transfers.
BatchTransferTokens(n, batchSize) ==
    /\ batch.pc = "idle"
    /\ batch' = [NoBatch EXCEPT !.pc = "loop", !.n = n,
                                !.batchSize = batchSize,
                                !.outcome = [k \in 1..n |-> "pending"]]
    /\ UNCHANGED <<backendVars, capture, xfer>>

\* The test of the for loop, and batch.map starting the transfers of the
\* next batch.
BatchLaunch ==
    /\ batch.pc = "loop"
    /\ batch' =
         IF batch.i < batch.n
         THEN [batch EXCEPT
                 !.pc = "await",
                 !.inflight = batch.inflight
                     \cup BatchSlice(batch.i, batch.batchSize, batch.n)]
         ELSE [batch EXCEPT !.pc = "done"]
    /\ UNCHANGED <<backendVars, capture, xfer>>

\* The transferTokens call of position k returns.
BatchTransferSettle(k, success) ==
    /\ k \in batch.inflight
    /\ batch' = [batch EXCEPT
                   !.inflight = batch.inflight \ {k},
                   !.outcome[k] = IF success THEN "ok" ELSE "failed"]
    /\ UNCHANGED <<backendVars, capture, xfer>>

\* After await Promise.allSettled: the results are pushed; the last batch
\* goes back to the loop test, the others wait first.
BatchCollect ==
    /\ batch.pc = "await"
    /\ BatchSettled(batch.inflight)
    /\ LET last == SliceIndex(batch.i + batch.batchSize, batch.n)
           pushed == batch.results
                         \o BatchResults(batch.outcome,
                                         SliceIndex(batch.i, batch.n) + 1,
                                         last)
       IN  batch' =
             IF batch.i + batch.batchSize < batch.n
             THEN [batch EXCEPT !.pc = "cooldown", !.results = pushed]
             ELSE [batch EXCEPT !.pc = "loop", !.results = pushed,
                                !.i = NextBatchIndex(batch.i, batch.batchSize,
                                                     batch.n)]
    /\ UNCHANGED <<backendVars, capture, xfer>>

\* The 2 s delay between batches has passed.
BatchCooldown ==
    /\ batch.pc = "cooldown"
    /\ batch' = [batch EXCEPT !.pc = "loop",
                              !.cooldowns = IF @ < MaxCooldowns THEN @ + 1
                                            ELSE @,
                              !.i = NextBatchIndex(batch.i, batch.batchSize,
                                                   batch.n)]
    /\ UNCHANGED <<backendVars, capture, xfer>>

(***************************************************************************)
(* ContractEventService: the pack purchases of the program's log           *)
(***************************************************************************)
Signatures == {"sig1", "sig2"}

\* Notifications the subscription delivers in one behaviour.
MaxNotifications == 3

NoEventService ==
    [processedSignatures |-> {}, handlers |-> <<>>,
     purchases |-> [s \in Signatures |-> 0]]

\* handleProgramLogs up to its first await.  parsed is whether
\* parseContractEvent finds a purchase in the logs.
HandleProgramLogs(service, signature, parsed) ==
    IF signature \in service.processedSignatures
    THEN [service EXCEPT
            !.handlers = Append(@, [pc |-> "skipped",
                                    signature |-> signature])]
    ELSE IF parsed
    THEN [service EXCEPT
            !.handlers = Append(@, [pc |-> "processing",
                                    signature |-> signature])]
    ELSE [service EXCEPT
            !.processedSignatures = @ \cup {signature},
            !.handlers = Append(@, [pc |-> "done", signature |-> signature])]

\* The callback of connection.onLogs: a notification starts a handler, which
\* nobody awaits.
OnLogs(signature, parsed) ==
    /\ Len(eventService.handlers) < MaxNotifications
    /\ eventService' = HandleProgramLogs(eventService, signature, parsed)
    /\ UNCHANGED <<dbVars, tournamentRows, tournamentResponse, poolResponse,
                   playerPacks, openPackRequests, users, grants,
                   trackRequests, schema, adminConfigured, adapterVars, slot,
                   ledger, imports, importPc, statusCalls, snapResponse,
                   statusResponse, runVars>>

\* processPackPurchase: purchasePack has handled the mock request of the
\* event.
ProcessPackPurchase(h) ==
    /\ h \in 1..Len(eventService.handlers)
    /\ eventService.handlers[h].pc = "processing"
    /\ eventService' =
         [eventService EXCEPT
            !.purchases[eventService.handlers[h].signature] = @ + 1,
            !.handlers[h].pc = "purchased"]
    /\ UNCHANGED <<dbVars, tournamentRows, tournamentResponse, poolResponse,
                   playerPacks, openPackRequests, users, grants,
                   trackRequests, schema, adminConfigured, adapterVars, slot,
                   ledger, imports, importPc, statusCalls, snapResponse,
                   statusResponse, runVars>>

\* handleProgramLogs after await processPackPurchase: mark as processed.
MarkProcessed(h) ==
    /\ h \in 1..Len(eventService.handlers)
    /\ eventService.handlers[h].pc = "purchased"
    /\ eventService' =
         [eventService EXCEPT
            !.processedSignatures =
                @ \cup {eventService.handlers[h].signature},
            !.handlers[h].pc = "done"]
    /\ UNCHANGED <<dbVars, tournamentRows, tournamentResponse, poolResponse,
                   playerPacks, openPackRequests, users, grants,
                   trackRequests, schema, adminConfigured, adapterVars, slot,
                   ledger, imports, importPc, statusCalls, snapResponse,
                   statusResponse, runVars>>

(***************************************************************************)
(* Packs: openPack                                                         *)
(***************************************************************************)
PackIds == {"pk1", "pk2"}

\* openPack requests of one behaviour.
MaxOpenPackRequests == 3

\* transfers counts the calls of distributeRandomPlayerTokens made for the
\* pack.
NoPlayerPack == [exists |-> FALSE, isOpened |-> FALSE, transfers |-> 0]

\* prisma.playerPack.create of purchasePack: a pack, not opened.
CreatePlayerPack(p) ==
    /\ ~ playerPacks[p].exists
    /\ playerPacks' = [playerPacks EXCEPT ![p].exists = TRUE]
    /\ UNCHANGED <<dbVars, tournamentRows, tournamentResponse, poolResponse,
                   eventService, openPackRequests, users, grants,
                   trackRequests, schema, adminConfigured, adapterVars, slot,
                   ledger, imports, importPc, statusCalls, snapResponse,
                   statusResponse, runVars>>

OpenPackAnswered(q, status, error) ==
    [q EXCEPT !.pc = "done", !.status = status, !.error = error]

\* POST openPack: the test of the body and of the admin key.  packId Null
\* is a body without packId.
OpenPack(packId) ==
    /\ Len(openPackRequests) < MaxOpenPackRequests
    /\ LET q == [pc |-> "find", packId |-> packId, status |-> 0,
                 error |-> Null]
       IN  openPackRequests' =
             Append(openPackRequests,
                    IF packId = Null \/ ~ adminConfigured
                    THEN OpenPackAnswered(q, 400,
                             "PackId and adminPrivateKey are required")
                    ELSE q)
    /\ UNCHANGED <<dbVars, tournamentRows, tournamentResponse, poolResponse,
                   eventService, playerPacks, users, grants, trackRequests,
                   schema, adminConfigured, adapterVars, slot, ledger,
                   imports, importPc, statusCalls, snapResponse,
                   statusResponse, runVars>>

\* prisma.playerPack.findUnique has answered: the tests of the row.
OpenPackFind(i) ==
    /\ i \in 1..Len(openPackRequests)
    /\ openPackRequests[i].pc = "find"
    /\ LET q == openPackRequests[i]
           playerPack == playerPacks[q.packId]
       IN  openPackRequests' =
             [openPackRequests EXCEPT ![i] =
                IF ~ playerPack.exists
                THEN OpenPackAnswered(q, 404, "Pack not found")
                ELSE IF playerPack.isOpened
                THEN OpenPackAnswered(q, 400, "Pack has already been opened")
                ELSE [q EXCEPT !.pc = "transfer"]]
    /\ UNCHANGED <<dbVars, tournamentRows, tournamentResponse, poolResponse,
                   eventService, playerPacks, users, grants, trackRequests,
                   schema, adminConfigured, adapterVars, slot, ledger,
                   imports, importPc, statusCalls, snapResponse,
                   statusResponse, runVars>>

\* distributeRandomPlayerTokens has returned, or has thrown before any
\* transfer.
OpenPackTransfer(i, distributeThrows) ==
    /\ i \in 1..Len(openPackRequests)
    /\ openPackRequests[i].pc = "transfer"
    /\ LET q == openPackRequests[i]
       IN  IF distributeThrows
           THEN /\ openPackRequests' =
                     [openPackRequests EXCEPT ![i] =
                        OpenPackAnswered(q, 500, "Failed to open pack")]
                /\ UNCHANGED playerPacks
           ELSE /\ playerPacks' =
                     [playerPacks EXCEPT ![q.packId].transfers = @ + 1]
                /\ openPackRequests' =
                     [openPackRequests EXCEPT ![i].pc = "update"]
    /\ UNCHANGED <<dbVars, tournamentRows, tournamentResponse, poolResponse,
                   eventService, users, grants, trackRequests, schema,
                   adminConfigured, adapterVars, slot, ledger, imports,
                   importPc, statusCalls, snapResponse, statusResponse,
                   runVars>>

\* prisma.playerPack.update sets isOpened, and the request answers.
OpenPackUpdate(i) ==
    /\ i \in 1..Len(openPackRequests)
    /\ openPackRequests[i].pc = "update"
    /\ playerPacks' =
         [playerPacks EXCEPT ![openPackRequests[i].packId].isOpened = TRUE]
    /\ openPackRequests' =
         [openPackRequests EXCEPT ![i] =
            OpenPackAnswered(openPackRequests[i], 200, Null)]
    /\ UNCHANGED <<dbVars, tournamentRows, tournamentResponse, poolResponse,
                   eventService, users, grants, trackRequests, schema,
                   adminConfigured, adapterVars, slot, ledger, imports,
                   importPc, statusCalls, snapResponse, statusResponse,
                   runVars>>

(***************************************************************************)
(* Users: trackUser and the grant of a new user                            *)
(***************************************************************************)
TrackedAddresses == {"a1", "a2"}

\* The revisions of trackUser.
TrackBuilds == {"users.controller.ts", "tournaments.controller.ts", "part_008"}

\* trackUser requests of one behaviour.
MaxTrackRequests == 3

\* What a new user is given: a welcome pack (createWelcomePack) or starter
\* tokens (sendStarterTokens).
GrantOf(build) ==
    IF build = "users.controller.ts" THEN "welcomePack" ELSE "starterTokens"

TrackUserAnswered(q, status) == [q EXCEPT !.pc = "done", !.status = status]

\* POST trackUser: the test of the body.  address Null is a body without a
\* string address.
TrackUser(build, address) ==
    /\ Len(trackRequests) < MaxTrackRequests
    /\ \A i \in 1..Len(trackRequests) : trackRequests[i].build = build
    /\ LET q == [pc |-> "find", build |-> build, address |-> address,
                 isNewUser |-> FALSE, status |-> 0]
       IN  trackRequests' =
             Append(trackRequests,
                    IF address = Null THEN TrackUserAnswered(q, 400) ELSE q)
    /\ UNCHANGED <<dbVars, tournamentRows, tournamentResponse, poolResponse,
                   eventService, playerPacks, openPackRequests, users, grants,
                   schema, adminConfigured, adapterVars, slot, ledger,
                   imports, importPc, statusCalls, snapResponse,
                   statusResponse, runVars>>

\* prisma.user.findUnique has answered: isNewUser = !existingUser.
TrackUserFind(i, dbThrows) ==
    /\ i \in 1..Len(trackRequests)
    /\ trackRequests[i].pc = "find"
    /\ LET q == trackRequests[i]
       IN  trackRequests' =
             [trackRequests EXCEPT ![i] =
                IF dbThrows THEN TrackUserAnswered(q, 500)
                ELSE [q EXCEPT !.pc = "upsert",
                               !.isNewUser = q.address \notin users]]
    /\ UNCHANGED <<dbVars, tournamentRows, tournamentResponse, poolResponse,
                   eventService, playerPacks, openPackRequests, users, grants,
                   schema, adminConfigured, adapterVars, slot, ledger,
                   imports, importPc, statusCalls, snapResponse,
                   statusResponse, runVars>>

\* prisma.user.upsert has answered; a new user's grant is started and not
\* awaited, and the request answers.
TrackUserUpsert(i, dbThrows) ==
    /\ i \in 1..Len(trackRequests)
    /\ trackRequests[i].pc = "upsert"
    /\ LET q == trackRequests[i]
       IN  IF dbThrows
           THEN /\ trackRequests' =
                     [trackRequests EXCEPT ![i] = TrackUserAnswered(q, 500)]
                /\ UNCHANGED users
           ELSE /\ users' = users \cup {q.address}
                /\ trackRequests' =
                     [trackRequests EXCEPT ![i] =
                        [q EXCEPT !.pc = IF q.isNewUser THEN "grant"
                                         ELSE "done",
                                  !.status = 200]]
    /\ UNCHANGED <<dbVars, tournamentRows, tournamentResponse, poolResponse,
                   eventService, playerPacks, openPackRequests, grants,
                   schema, adminConfigured, adapterVars, slot, ledger,
                   imports, importPc, statusCalls, snapResponse,
                   statusResponse, runVars>>

\* createWelcomePack or sendStarterTokens has run to its end.  Starter
\* tokens need the admin key; an error inside is caught and logged.
TrackUserGrant(i, grantThrows) ==
    /\ i \in 1..Len(trackRequests)
    /\ trackRequests[i].pc = "grant"
    /\ LET q == trackRequests[i]
           issued == /\ ~ grantThrows
                     /\ \/ GrantOf(q.build) = "welcomePack"
                        \/ adminConfigured
       IN  /\ grants' = IF issued THEN [grants EXCEPT ![q.address] = @ + 1]
                        ELSE grants
           /\ trackRequests' = [trackRequests EXCEPT ![i].pc = "done"]
    /\ UNCHANGED <<dbVars, tournamentRows, tournamentResponse, poolResponse,
                   eventService, playerPacks, openPackRequests, users, schema,
                   adminConfigured, adapterVars, slot, ledger, imports,
                   importPc, statusCalls, snapResponse, statusResponse,
                   runVars>>

(***************************************************************************)
(* Specification                                                           *)
(***************************************************************************)
Init ==
    /\ tournaments = {}
    /\ snapshots = {}
    /\ rewardPools = {}
    /\ userRewards = {}
    /\ schema \in {"migrated", "legacy"}
    /\ adminConfigured \in BOOLEAN
    /\ slot = 0
    /\ ledger = <<>>
    /\ imports = 0
    /\ importPc = "idle"
    /\ statusCalls = 0
    /\ snapResponse = NoResponse
    /\ statusResponse = NoResponse
    /\ runs = 0
    /\ pc = "idle"
    /\ req = [tournamentId |-> NoId, totalRewardAmount |-> 0]
    /\ calc = <<>>
    /\ idx = 1
    /\ transferResults = <<>>
    /\ summary = <<>>
    /\ poolId = NullId
    /\ rewardRecords = <<>>
    /\ response = ErrorResponse(0, Null)
    /\ capture = NoCapture
    /\ tournamentRows = [t \in Tournaments |-> NoTournamentRow]
    /\ tournamentResponse = NoResponse
    /\ poolResponse = NoResponse
    /\ eventService = NoEventService
    /\ playerPacks = [p \in PackIds |-> NoPlayerPack]
    /\ openPackRequests = <<>>
    /\ users = {}
    /\ grants = [a \in TrackedAddresses |-> 0]
    /\ trackRequests = <<>>
    /\ xfer = NoTransfer
    /\ batch = NoBatch

TransactionIds == {NullId, <<"txM", 1>>}

\* The store: tournaments, snapshots and the import script, in every
\* interleaving.
\* The ledger position is read without failure here; NextPosition has the
\* failing read.
Next ==
    \/ \E t \in Tournaments : AdminCreateTournament(t, "m1")
    \/ \E t \in Tournaments : ScriptCreateTournament(t)
    \/ AdvanceSlot
    \/ \E t \in Tournaments \cup {NoId}, ty \in SnapshotTypes \cup {"OTHER"},
          h \in HolderViews :
          CreateSnapshot(t, ty, h, FALSE)
    \/ ImportStart
    \/ ImportNextStage
    \/ \E t \in Tournaments : ImportTournament(t)
    \/ \E row \in BackupRewardPools : ImportRewardPool(row)
    \/ \E row \in BackupUserRewards : ImportUserReward(row)
    \/ \E old \in BackupSnapshots : ImportSnapshot(old)

Spec == Init /\ [][Next]_vars

\* Distribution: tournaments, snapshots and distribute requests, in every
\* interleaving.
NextDistribute ==
    \/ \E t \in Tournaments : AdminCreateTournament(t, "m1")
    \/ \E t \in Tournaments : ScriptCreateTournament(t)
    \/ \E t \in Tournaments, ty \in SnapshotTypes, h \in HolderViews,
          getSlotThrows \in BOOLEAN : CreateSnapshot(t, ty, h, getSlotThrows)
    \/ \E t \in Tournaments \cup {NoId}, total \in TotalRewardAmounts :
          DistributeStart(t, total)
    \/ DistributeCalculate
    \/ \E outcome \in TransferOutcomes : DistributeTransfer(outcome)
    \/ DistributeSummary
    \/ DistributePool
    \/ DistributeRecord
    \/ DistributeRespond

SpecDistribute == Init /\ [][NextDistribute]_vars

\* Reward rows: the rows one distribution of 30 over equal holdings leaves,
\* and the reward status requests on them, in every interleaving.
NextRewards ==
    \/ \E t \in Tournaments : AdminCreateTournament(t, "m1")
    \/ \E t \in Tournaments, ty \in SnapshotTypes, getSlotThrows \in BOOLEAN :
          CreateSnapshot(t, ty, [a \in Addresses |-> 1], getSlotThrows)
    \/ \E t \in Tournaments : runs = 0 /\ DistributeStart(t, 30)
    \/ DistributeCalculate
    \/ \E outcome \in TransferOutcomes : DistributeTransfer(outcome)
    \/ DistributeSummary
    \/ DistributePool
    \/ DistributeRecord
    \/ DistributeRespond
    \/ \E r \in userRewards, tx \in TransactionIds : ProcessReward(r.id, tx)
    \/ \E r \in userRewards, st \in Statuses \cup {"OTHER"},
          tx \in TransactionIds : UpdateRewardStatus(r.id, st, tx)

SpecRewards == Init /\ [][NextRewards]_vars

\* Reward rows of a backup: the import script and the reward status
\* requests on the rows it leaves, in every interleaving.
NextStatus ==
    \/ \E t \in Tournaments : AdminCreateTournament(t, "m1")
    \/ ImportStart
    \/ ImportNextStage
    \/ \E t \in Tournaments : ImportTournament(t)
    \/ \E row \in BackupRewardPools : ImportRewardPool(row)
    \/ \E row \in BackupUserRewards : ImportUserReward(row)
    \/ \E r \in userRewards, tx \in TransactionIds : ProcessReward(r.id, tx)
    \/ \E r \in userRewards, st \in Statuses \cup {"OTHER"},
          tx \in TransactionIds : UpdateRewardStatus(r.id, st, tx)

SpecStatus == Init /\ [][NextStatus]_vars

\* Holder capture: every call of the two capture entry points.  The
\* lists given to getTokenHoldersWithBalancesForEligiblePlayers are the
\* non-empty lists of player names the capture resolves for a tournament.
NextCapture ==
    \/ \E env \in IgnoredEnvs, raw \in RawLedgers, failed \in SUBSET PlayerMints,
          el \in EligibleLists :
          CaptureHoldings("getTokenHoldersWithBalances", env, raw, failed, el)
    \/ \E env \in IgnoredEnvs, raw \in RawLedgers, failed \in SUBSET PlayerMints,
          el \in TournamentEligiblePlayers :
          CaptureHoldings("getTokenHoldersWithBalancesForEligiblePlayers",
                          env, raw, failed, el)

SpecCapture == Init /\ [][NextCapture]_vars

\* Snapshot captures while the ledger moves on.
NextPosition ==
    \/ \E t \in Tournaments : AdminCreateTournament(t, "m1")
    \/ AdvanceSlot
    \/ \E t \in Tournaments, ty \in SnapshotTypes, h \in HolderViews,
          getSlotThrows \in BOOLEAN : CreateSnapshot(t, ty, h, getSlotThrows)

SpecPosition == Init /\ [][NextPosition]_vars

\* The life of a tournament: creation, update, eligible players, snapshot
\* captures, deletion.
NextTournament ==
    \/ \E t \in Tournaments, matchId \in MatchIds :
          AdminCreateTournament(t, matchId)
    \/ \E t \in Tournaments, status \in TournamentStatuses \cup {Null} :
          UpdateTournament(t, status)
    \/ \E t \in Tournaments, players \in EligiblePlayerAnswers,
          apiThrows \in BOOLEAN :
          StoreEligiblePlayersForTournament(t, players, apiThrows)
    \/ \E t \in Tournaments, ty \in SnapshotTypes, h \in HolderViews,
          getSlotThrows \in BOOLEAN : CreateSnapshot(t, ty, h, getSlotThrows)
    \/ \E t \in Tournaments, poolsOnDelete \in RewardPoolsOnDelete :
          DeleteTournament(t, poolsOnDelete)

SpecTournament == Init /\ [][NextTournament]_vars

\* Every way a reward pool is created: createRewardPool, the creation
\* script, the import script and one distribution of 30 over equal holdings.
NextPools ==
    \/ \E t \in Tournaments : AdminCreateTournament(t, "m1")
    \/ \E t \in Tournaments : ScriptCreateTournament(t)
    \/ \E t \in Tournaments \cup {NoId}, total \in TotalRewardAmounts,
          rulesParse \in BOOLEAN : CreateRewardPool(t, total, rulesParse)
    \/ ImportStart
    \/ ImportNextStage
    \/ \E t \in Tournaments : ImportTournament(t)
    \/ \E row \in BackupRewardPools : ImportRewardPool(row)
    \/ \E t \in Tournaments, ty \in SnapshotTypes, getSlotThrows \in BOOLEAN :
          CreateSnapshot(t, ty, [a \in Addresses |-> 1], getSlotThrows)
    \/ \E t \in Tournaments : runs = 0 /\ DistributeStart(t, 30)
    \/ DistributeCalculate
    \/ \E outcome \in TransferOutcomes : DistributeTransfer(outcome)
    \/ DistributeSummary
    \/ DistributePool
    \/ DistributeRecord
    \/ DistributeRespond

SpecPools == Init /\ [][NextPools]_vars

\* One call of transferTokens, in each revision of the adapter.
NextTransfer ==
    \/ \E build \in AdapterBuilds, amount \in TransferAmounts,
          destExists \in BOOLEAN : TransferTokens(build, amount, destExists)
    \/ \E outcome \in {"ok", "invalid_input", "precheck_failed",
                        "simulation_failed"},
          destCheck \in {"found", "missing_message", "missing_error",
                         "rpc_error"} : TransferPrepare(outcome, destCheck)
    \/ TransferEncodeRefused
    \/ \E outcome \in {"sent", "rejected"} : TransferSend(outcome)
    \/ \E status \in SignatureStatuses : TransferPoll(status)
    \/ TransferPollEnd
    \/ \E outcome \in ConfirmOutcomes : TransferConfirm(outcome)

SpecTransfer == Init /\ [][NextTransfer]_vars

\* One call of transferTokens in the revisions that look the signature
\* status up themselves.
NextConfirm ==
    \/ \E build \in {"part_011", "part_012"}, amount \in TransferAmounts,
          destExists \in BOOLEAN : TransferTokens(build, amount, destExists)
    \/ \E outcome \in {"ok", "invalid_input", "precheck_failed",
                        "simulation_failed"},
          destCheck \in {"found", "missing_message", "missing_error",
                         "rpc_error"} : TransferPrepare(outcome, destCheck)
    \/ \E outcome \in {"sent", "rejected"} : TransferSend(outcome)
    \/ \E status \in SignatureStatuses : TransferPoll(status)
    \/ TransferPollEnd
    \/ \E outcome \in ConfirmOutcomes, status, finalStatus \in SignatureStatuses :
          TransferConfirmRetry(outcome, status, finalStatus)

SpecConfirm == Init /\ [][NextConfirm]_vars

\* One call of batchTransferTokens.
NextBatch ==
    \/ \E n \in 0..MaxTransfers, batchSize \in BatchSizes :
          BatchTransferTokens(n, batchSize)
    \/ BatchLaunch
    \/ \E k \in 1..MaxTransfers, success \in BOOLEAN :
          BatchTransferSettle(k, success)
    \/ BatchCollect
    \/ BatchCooldown

SpecBatch == Init /\ [][NextBatch]_vars

\* A batch transfer with any batchSize.  Each step of the call is taken in
\* the end: a transfer returns, the awaited promise resolves, the timer fires.
NextBatchAny ==
    \/ \E n \in 0..MaxTransfers, batchSize \in AnyBatchSizes :
          BatchTransferTokens(n, batchSize)
    \/ BatchLaunch
    \/ \E k \in 1..MaxTransfers, success \in BOOLEAN :
          BatchTransferSettle(k, success)
    \/ BatchCollect
    \/ BatchCooldown

SpecBatchAny ==
    /\ Init
    /\ [][NextBatchAny]_vars
    /\ WF_vars(BatchLaunch)
    /\ WF_vars(\E k \in 1..MaxTransfers, success \in BOOLEAN :
                  BatchTransferSettle(k, success))
    /\ WF_vars(BatchCollect)
    /\ WF_vars(BatchCooldown)

\* The log subscription: notifications and their handlers, interleaved.
NextEvents ==
    \/ \E signature \in Signatures, parsed \in BOOLEAN :
          OnLogs(signature, parsed)
    \/ \E h \in 1..MaxNotifications : ProcessPackPurchase(h)
    \/ \E h \in 1..MaxNotifications : MarkProcessed(h)

SpecEvents == Init /\ [][NextEvents]_vars

\* Packs and the openPack requests on them, interleaved.
NextPacks ==
    \/ \E p \in PackIds : CreatePlayerPack(p)
    \/ \E packId \in PackIds \cup {Null} : OpenPack(packId)
    \/ \E i \in 1..MaxOpenPackRequests : OpenPackFind(i)
    \/ \E i \in 1..MaxOpenPackRequests, distributeThrows \in BOOLEAN :
          OpenPackTransfer(i, distributeThrows)
    \/ \E i \in 1..MaxOpenPackRequests : OpenPackUpdate(i)

SpecPacks == Init /\ [][NextPacks]_vars

\* The trackUser requests of one revision, interleaved.
NextTrack ==
    \/ \E build \in TrackBuilds, address \in TrackedAddresses \cup {Null} :
          TrackUser(build, address)
    \/ \E i \in 1..MaxTrackRequests, dbThrows \in BOOLEAN :
          TrackUserFind(i, dbThrows)
    \/ \E i \in 1..MaxTrackRequests, dbThrows \in BOOLEAN :
          TrackUserUpsert(i, dbThrows)
    \/ \E i \in 1..MaxTrackRequests, grantThrows \in BOOLEAN :
          TrackUserGrant(i, grantThrows)

SpecTrack == Init /\ [][NextTrack]_vars

(***************************************************************************)
(* Properties of the distribution                                          *)
(***************************************************************************)
\* A UserReward row of the pool of tournament t, for address a.
RewardRows(t, a) ==
    {r \in userRewards :
        /\ r.address = a
        /\ \E p \in rewardPools : p.tournamentId = t /\ p.id = r.rewardPoolId}

\* The step submits a transaction to the ledger, paying address a.
SubmitsTo(a) ==
    /\ Len(ledger') = Len(ledger) + 1
    /\ ledger'[Len(ledger')].to = a

\* The transactions the current request has submitted.
RunSubmissions == {k \in 1..Len(ledger) : ledger[k].run = runs}

\* The loop of transferRewardsToUsers has run to its end.
LoopOver == summary # <<>>

\* C1: a distribute request never submits a transfer to a recipient who has
\* a COMPLETED UserReward in the pool of the tournament.
C1_NoTransferToCompleted ==
    [][\A a \in Addresses :
          SubmitsTo(a) =>
              ~ \E r \in RewardRows(req.tournamentId, a) :
                    r.status = "COMPLETED"]_vars

\* C2: whenever the current request has submitted a transfer, the
\* recipient's UserReward row of the tournament's pool is already stored.
C2_RowsBeforeTransfers ==
    \A k \in RunSubmissions : RewardRows(req.tournamentId, ledger[k].to) # {}

\* C3: when a request has ended, every attempted transfer has its row: a
\* COMPLETED row with the transaction reference when it succeeded, a FAILED
\* row when it failed.
C3_RowPerAttempt ==
    pc = "done" =>
        \A k \in 1..Len(transferResults) :
            LET res == transferResults[k]
                rows == RewardRows(req.tournamentId, res.address)
            IN  /\ res.status = "success" =>
                       \E r \in rows : /\ r.status = "COMPLETED"
                                       /\ r.transactionId = res.transactionId
                /\ res.status = "failed" =>
                       \E r \in rows : r.status = "FAILED"

\* C4: a request that has submitted a transfer ends with the complete
\* summary, never with an error.
C4_SummaryAfterTransfers ==
    (pc = "done" /\ RunSubmissions # {}) =>
        /\ response.status = 200
        /\ response.summary = <<SummaryCounts(summary[1])>>
        /\ response.transfers = transferResults

\* C5: when the transfer loop is over, every calculated recipient has its
\* entry in the results, in order; each recipient at or above the minimum
\* was attempted and ended success or failed, a failure carrying its
\* error; and while the loop runs no error response has been produced.
C5_FailuresIsolated ==
    /\ pc = "transfer" =>
           /\ Len(transferResults) = idx - 1
           /\ response.status = 0
    /\ LoopOver =>
           /\ Len(transferResults) = Len(calc)
           /\ \A k \in 1..Len(calc) :
                 /\ transferResults[k].address = calc[k].address
                 /\ calc[k].rewardAmount >= MIN_REWARD_AMOUNT =>
                        transferResults[k].status \in {"success", "failed"}
                 /\ transferResults[k].status = "failed" =>
                        transferResults[k].error # Null

\* The loop is over, a transfer failed and a later recipient succeeded.
C5_Witness ==
    /\ LoopOver
    /\ \E j, k \in 1..Len(transferResults) :
          /\ j < k
          /\ transferResults[j].status = "failed"
          /\ transferResults[k].status = "success"

\* C6: no request submits more than one transaction to the same recipient.
C6_OneSubmissionPerRecipient ==
    \A j, k \in 1..Len(ledger) :
        (ledger[j].run = ledger[k].run /\ ledger[j].to = ledger[k].to)
            => j = k

\* A request has ended whose submitted transfer to a recipient failed.
C6_Witness ==
    /\ pc = "done"
    /\ \E k \in RunSubmissions, j \in 1..Len(transferResults) :
          /\ transferResults[j].address = ledger[k].to
          /\ transferResults[j].status = "failed"

\* C7: when the transfer loop is over, a recipient below the minimum payout
\* has no transaction of the request on the ledger and exactly one entry in
\* the results, with status skipped; the summary counts these entries, and
\* successful + failed + skipped is the number of calculated recipients.
C7_SkippedReported ==
    LoopOver =>
        /\ \A k \in 1..Len(calc) :
              calc[k].rewardAmount < MIN_REWARD_AMOUNT =>
                  /\ \A n \in RunSubmissions :
                        ledger[n].to # calc[k].address
                  /\ Cardinality({j \in 1..Len(transferResults) :
                         transferResults[j].address = calc[k].address}) = 1
                  /\ \A j \in 1..Len(transferResults) :
                        transferResults[j].address = calc[k].address =>
                            transferResults[j].status = "skipped"
        /\ summary[1].skipped =
               Cardinality({k \in 1..Len(calc) :
                               calc[k].rewardAmount < MIN_REWARD_AMOUNT})
        /\ summary[1].successful + summary[1].failed + summary[1].skipped
               = Len(calc)

\* The loop is over with a skipped recipient beside a paid one.
C7_Witness ==
    /\ LoopOver
    /\ summary[1].skipped > 0
    /\ summary[1].successful > 0

(***************************************************************************)
(* Properties of the snapshot store                                        *)
(***************************************************************************)
\* C8: the table holds at most one snapshot per (tournament, snapshotType).
C8_OneSnapshotPerType ==
    \A s1, s2 \in snapshots :
        (s1.tournamentId = s2.tournamentId
            /\ s1.snapshotType = s2.snapshotType) => s1 = s2

\* A capture was refused as a duplicate of an imported snapshot.
C8_Witness ==
    /\ snapResponse.error = "DuplicateSnapshotError"
    /\ \E s \in snapshots : s.id \in {old.id : old \in BackupSnapshots}

\* C9: createSnapshot for a (tournament, snapshotType) that has a snapshot
\* ends in DuplicateSnapshotError and leaves the table as it was.
C9_DuplicateCaptureRefused ==
    [][\/ /\ snapResponse'.error = "DuplicateSnapshotError"
          /\ snapshots' = snapshots
       \/ \A t \in Tournaments, ty \in SnapshotTypes :
             SnapshotOf(snapshots, t, ty) # {} =>
                ~ \E h \in HolderViews, getSlotThrows \in BOOLEAN :
                     CreateSnapshot(t, ty, h, getSlotThrows)]_vars

\* A second capture was refused although the ledger had changed since the
\* stored one.
C9_Witness ==
    /\ snapResponse.error = "DuplicateSnapshotError"
    /\ \E s \in snapshots : s.blockNumber < slot

(***************************************************************************)
(* Properties of the reward rows                                           *)
(***************************************************************************)
\* C10: no step moves the status of a UserReward backward, or out of
\* COMPLETED or FAILED.
C10_StatusForward ==
    [][LET StatusRank(st) == CASE st = "PENDING" -> 1
                               [] st = "PROCESSING" -> 2
                               [] OTHER -> 3
       IN
       \A r \in userRewards : \A n \in userRewards' :
          n.id = r.id =>
              /\ StatusRank(n.status) >= StatusRank(r.status)
              /\ r.status \in {"COMPLETED", "FAILED"} =>
                     n.status = r.status]_vars

\* C11: every UserReward with status COMPLETED has its transaction
\* reference set.
C11_CompletedHasReference ==
    \A r \in userRewards :
        r.status = "COMPLETED" => r.transactionId # NullId

\* Base units the request has submitted to the ledger, over its first k
\* ledger entries.
RECURSIVE SubmittedBaseUnits(_)
SubmittedBaseUnits(k) ==
    IF k = 0 THEN 0
    ELSE (IF ledger[k].run = runs THEN ledger[k].amount ELSE 0)
         + SubmittedBaseUnits(k - 1)

C13_MissingSnapshotEndsEarly ==
    [][(/\ pc = "calculate"
        /\ pc' # "calculate"
        /\ \/ SnapshotOf(snapshots, req.tournamentId, "PRE_MATCH") = {}
           \/ SnapshotOf(snapshots, req.tournamentId, "POST_MATCH") = {})
       => /\ pc' = "done"
          /\ response'.status = 500
          /\ RunSubmissions = {}
          /\ ledger' = ledger
          /\ rewardPools' = rewardPools
          /\ userRewards' = userRewards
          /\ poolId' = NullId
          /\ rewardRecords' = <<>>]_vars

\* A request ended for the missing POST_MATCH snapshot, the PRE_MATCH one
\* being there and the admin key configured.
C13_Witness ==
    /\ pc = "done"
    /\ adminConfigured
    /\ response.error = "MissingSnapshotError:POST_MATCH"
    /\ SnapshotOf(snapshots, req.tournamentId, "PRE_MATCH") # {}
    /\ SnapshotOf(snapshots, req.tournamentId, "POST_MATCH") = {}

(***************************************************************************)
(* Properties of the holder capture                                        *)
(***************************************************************************)
\* The configured infrastructure addresses, as written in the configuration.
InfrastructureAddresses ==
    PLAYER_POOL_ADDRESSES \cup {AMM_PDA} \cup capture.env

\* The token account is one a capture has to report.
Reportable(acc) ==
    /\ acc.amount > 0
    /\ \A c \in InfrastructureAddresses : LowerCase(c) # LowerCase(acc.owner)

\* C14: no holder of a capture is a configured infrastructure address,
\* whatever the letter case the address is configured or listed in.
C14_NoInfrastructureHolder ==
    capture.pc = "done" =>
        \A k \in 1..Len(capture.holders) :
            \A c \in InfrastructureAddresses :
                LowerCase(capture.holders[k].address) # LowerCase(c)

\* The ledger listed an address with a balance that the configuration
\* names in another letter case, in a token whose query succeeded.
C14_Witness ==
    /\ capture.pc = "done"
    /\ capture.env = {"IGN1"}
    /\ \E i \in 1..Len(capture.queried) :
          LET m == capture.queried[i]
          IN  /\ m \notin capture.failed
              /\ \E k \in 1..Len(capture.raw[m]) :
                    /\ capture.raw[m][k].owner = "Ign1"
                    /\ capture.raw[m][k].amount > 0

\* C15: a capture does not throw, and it holds every reportable holding of
\* each queried token whose ledger query succeeded.
C15_PartialFailureKeepsRest ==
    capture.pc = "done" =>
        /\ ~ capture.threw
        /\ \A i \in 1..Len(capture.queried) :
              LET m == capture.queried[i]
              IN  m \notin capture.failed =>
                      \A k \in 1..Len(capture.raw[m]) :
                          LET acc == capture.raw[m][k]
                          IN  Reportable(acc) =>
                                  \E j \in 1..Len(capture.holders) :
                                      /\ capture.holders[j].address = acc.owner
                                      /\ capture.holders[j].balance = acc.amount
                                      /\ capture.holders[j].moduleName = m

\* The query of one token failed and another token's holdings were captured.
C15_Witness ==
    /\ capture.pc = "done"
    /\ \E i \in 1..Len(capture.queried) : capture.queried[i] \in capture.failed
    /\ Len(capture.holders) > 0

\* C16: a capture in which the query of a token failed returns something
\* else than the same capture would if that token had no holders and its
\* query succeeded.
C16_FailuresSurfaced ==
    (/\ capture.pc = "done"
     /\ \E i \in 1..Len(capture.queried) :
           capture.queried[i] \in capture.failed)
    => LET emptied == [m \in PlayerMints |->
                          IF m \in capture.failed THEN <<>>
                          ELSE capture.raw[m]]
           other == CaptureResult(capture.entry, capture.env, emptied, {},
                                  capture.eligiblePlayers)
       IN  <<capture.threw, capture.holders>> # <<other.threw, other.holders>>

C18_ZeroAmountRefused ==
    (xfer.pc # "idle" /\ Floor(xfer.amount) <= 0) =>
        /\ xfer.submissions = 0
        /\ xfer.pc = "done" => (~ xfer.success /\ xfer.error # Null)

C20_BatchesBounded ==
    /\ Cardinality(batch.inflight) <= batch.batchSize
    /\ batch.inflight
          \subseteq BatchSlice(batch.i, batch.batchSize, batch.n)
    /\ \A k \in 1..batch.n :
          k <= batch.i => batch.outcome[k] # "pending"
    /\ batch.pc = "await" =>
          batch.cooldowns * batch.batchSize = batch.i

\* With the default batch size, the results of the first batch are in and
\* transfers of the second batch are in flight.
C20_Witness ==
    /\ batch.pc = "await"
    /\ batch.i > 0
    /\ batch.batchSize = DefaultBatchSize
    /\ Cardinality(batch.inflight) > 0
    /\ Len(batch.results) = batch.i

(***************************************************************************)
(* Properties of the store                                                 *)
(***************************************************************************)
\* C21: when the PRE_MATCH snapshot of a tournament was captured before its
\* POST_MATCH snapshot, the ledger position of the POST_MATCH snapshot is
\* not below that of the PRE_MATCH snapshot.
C21_PositionsNeverDecrease ==
    \A pre, post \in snapshots :
        (/\ pre.tournamentId = post.tournamentId
         /\ pre.snapshotType = "PRE_MATCH"
         /\ post.snapshotType = "POST_MATCH"
         /\ pre.id[2] < post.id[2])
        => post.blockNumber >= pre.blockNumber

\* C22: a stored snapshot is stored, unchanged, after every step.
C22_SnapshotsKept ==
    [][\A sn \in snapshots : sn \in snapshots']_vars

\* C24: a step does not change the eligible players of a tournament that
\* has a PRE_MATCH snapshot before and after the step.
C24_EligibleListFrozen ==
    [][\A t \in Tournaments :
          (/\ SnapshotOf(snapshots, t, "PRE_MATCH") # {}
           /\ SnapshotOf(snapshots', t, "PRE_MATCH") # {})
          => tournamentRows'[t].eligiblePlayers
                 = tournamentRows[t].eligiblePlayers]_vars

\* C23: a tournament has at most one RewardPool, and a step that creates a
\* pool leaves every stored pool as it was.
C23_OnePoolPerTournament ==
    /\ [](\A p1, p2 \in rewardPools :
            p1.tournamentId = p2.tournamentId => p1 = p2)
    /\ [][\A p \in rewardPools : p \in rewardPools']_vars

\* createRewardPool was refused for a tournament that has a pool, and a
\* distribution for such a tournament ended at the pool creation.
C23_Witness ==
    /\ poolResponse.status = 500
    /\ pc = "done"
    /\ response.error = "P2002:tournamentId"
    /\ \E p \in rewardPools : p.tournamentId = req.tournamentId

\* C25: a transaction built for a recipient without a token account creates
\* the account ahead of the transfer instruction, and no transfer ends with
\* the error of a destination lookup that found no account.
C25_MissingAccountCreated ==
    /\ (xfer.pc \in {"send", "confirm", "done"}
           /\ xfer.instructions # <<>> /\ ~ xfer.destExists)
        => xfer.instructions = <<"createAssociatedTokenAccount", "transfer">>
    /\ xfer.pc = "done" => xfer.error # ErrDestCheckNotFound

\* C26: a transfer that returned success was submitted and observed with
\* confirmation status confirmed or finalized, without error.
C26_SuccessOnlyIfConfirmed ==
    (xfer.pc = "done" /\ xfer.success) =>
        /\ xfer.submissions = 1
        /\ xfer.confirmation = "ok"
        /\ xfer.observed \in {"confirmed", "finalized"}

\* C27: the ContractEventService processes a pack purchase at most once per
\* transaction signature, also when a second notification of the signature
\* arrives while the first is being processed.
C27_PurchaseOncePerSignature ==
    \A s \in Signatures : eventService.purchases[s] <= 1

\* C28: the tokens of a pack are transferred at most once: whatever the
\* interleaving of the openPack requests on a packId, one request at most
\* makes the transfers.
C28_PackTransferredOnce ==
    \A p \in PackIds : playerPacks[p].transfers <= 1

\* C29: the grant of a new user is issued at most once per wallet address,
\* whatever the interleaving of the trackUser requests of the address.
C29_GrantOncePerAddress ==
    \A a \in TrackedAddresses : grants[a] <= 1

\* C30: batchTransferTokens terminates for every list of transfers and every
\* batchSize, zero and negative values included, when each transfer returns:
\* a call that has started reaches its return.
C30_BatchTerminates ==
    (batch.pc # "idle") ~> (batch.pc = "done")

=============================================================================
